---- MODULE Spec2Model ----
(***************************************************************************)
(* ShaderForge: the App component (request handlers, tabs, log list) and   *)
(* the ShaderPreview component (WebGL2 compile/link, frame loop, cleanup)  *)
(* together with the createShader / createProgram helpers.                 *)
(*                                                                         *)
(* React is modelled as: a state change commits at once; the passive       *)
(* effect of ShaderPreview (cleanup of the previous run, then the body)    *)
(* runs in a later step (FlushEffects), before any other commit.           *)
(* Animation-frame callbacks may fire between a commit and that flush.     *)
(* A WebGL handle is alive from its create call to its delete call.        *)
(* Context loss is not modelled: gl.create* always returns a handle.       *)
(*                                                                         *)
(* Three specifications: Spec follows the whole App with the clock and the *)
(* window's layout held fixed; SpecTimed lets the clock advance and the    *)
(* window resize, with the handlers that drive the preview; SpecFormat     *)
(* applies formatForPreview to bounded texts.                              *)
(***************************************************************************)
EXTENDS Integers, Sequences, FiniteSets, TLC

\* A handler starts a request only while the log list is shorter than this.
MaxLogs == 3

Null == "null"
Absent == "absent"

\* ------------------------------------------------------------------ types.ts
Languages == {"GLSL", "HLSL", "WGSL", "MSL (Metal)"}
GLSL == "GLSL"

\* ------------------------------------------------------- source texts, driver
\* Fragment texts the remote service may produce for the GLSL target, named by
\* what the WebGL2 driver does with them.
GlslTexts == {"glslOk", "glslSyntaxError", "glslNoLog", "glslNoLink"}
\* Text produced for any other target language.
OtherLangText == "otherLangText"
ParseErrorCode == "// Error parsing generated code"
INITIAL_HLSL == "INITIAL_HLSL"
InputTexts == {"", INITIAL_HLSL, "optimizedSrc"}

\* What the driver does with a fragment text: "ok" compiles and links,
\* "nolink" compiles but does not link, "fail" does not compile and has an
\* info log, "failquiet" does not compile and has an empty info log.
\* A text with no entry point (the empty text, the comment-only placeholder)
\* and a text in another shading language are rejected with a log.
DriverVerdict(src) ==
  CASE src = "glslOk"          -> "ok"
    [] src = "glslNoLink"      -> "nolink"
    [] src = "glslNoLog"       -> "failquiet"
    [] OTHER                   -> "fail"

FragCompiles(v) == v \in {"ok", "nolink"}
ProgramLinks(v) == v = "ok"
\* gl.getShaderInfoLog of a shader compiled from a text with verdict v.
ShaderInfoLog(v) == IF v = "fail" THEN "ERROR: 0:1: syntax error" ELSE ""
\* gl.getProgramInfoLog of a program whose link failed.
ProgramInfoLog == "ERROR: link failed"

VARIABLES
  \* App state (useState in App)
  activeTab, outputLang, inputCode, outputCode, explanation, logs, isProcessing,
  \* the request awaited by a handler, or NoRequest
  inflight,
  \* the request settled last failed: its transport rejected, or its response
  \* text could not be parsed (history)
  lastFailed,
  \* ShaderPreview state (useState / useRef), of the mounted instance
  error, compiled, requestRef,
  \* whether the mounted canvas yields a webgl2 context
  ctxAvailable,
  \* the context's alive handles: set of [kind, id]
  alive,
  \* what the last effect run returned as cleanup: [kind, vs, fs, program]
  cl,
  \* animation-frame callbacks requested and not yet fired or cancelled
  pending,
  \* resize listeners of ShaderPreview registered on window
  resizeListeners,
  \* a commit changed [fragmentCode, isActive] (or mounted / unmounted) and
  \* the passive effect has not run yet
  effectPending,
  \* what the mounted instance's last effect body run did: the text and the
  \* driver's verdict, what createShader / createProgram returned, and the
  \* last console.warn argument (history)
  lastRun,
  \* a frame callback used a program or vertex array already deleted (history)
  staleUse,
  \* number of changes of outputCode since the last compile was entered (history)
  uncompiled,
  \* the mounted canvas's back-buffer size (canvas.width, canvas.height) and
  \* the context's viewport size, each as one size
  canvasSize, viewport,
  \* what the last render call of the current effect run passed to the
  \* driver (history)
  lastDraw,
  \* formatForPreview applied to one text: its argument, its return value,
  \* and whether it has returned
  fmtInput, fmtOutput, fmtDone,
  \* performance.now(), in milliseconds
  now,
  \* canvas.clientWidth * devicePixelRatio and
  \* canvas.clientHeight * devicePixelRatio of the layout, as one size
  clientSize,
  \* the timestamp the browser passed to the animation-frame callbacks it
  \* ran last
  frameStamp

appVars == <<activeTab, outputLang, inputCode, outputCode, explanation, logs,
             isProcessing, inflight, lastFailed>>
previewVars == <<error, compiled, requestRef, ctxAvailable, alive, cl, pending,
                 resizeListeners, effectPending, lastRun, staleUse,
                 uncompiled>>
canvasVars == <<canvasSize, viewport, lastDraw>>
formatVars == <<fmtInput, fmtOutput, fmtDone>>
envVars == <<now, clientSize, frameStamp>>
vars == <<appVars, previewVars, canvasVars, formatVars, envVars>>

\* ---------------------------------------------------------------- helpers
\* A fresh object identity: the least id no live reference holds.
FreshId(used) ==
  CHOOSE i \in 1..(Cardinality(used) + 1) :
    i \notin used /\ \A j \in 1..(i - 1) : j \in used

Handle(kind, id) == [kind |-> kind, id |-> id]
Ids(handles) == {h.id : h \in handles}
\* Handle ids some live reference still holds: alive ones and those captured
\* by a pending render callback.
UsedIds(al, pend) == Ids(al) \union {cb.program : cb \in pend} \union {cb.vao : cb \in pend}

NoCleanup == [kind |-> "none", vs |-> 0, fs |-> 0, program |-> 0]
NoRun == [src |-> Null, verdict |-> Null, collapsed |-> 0,
          vs |-> 0, fs |-> 0, fsAllocated |-> 0, fsLog |-> Null,
          program |-> 0, programAllocated |-> 0, programLog |-> Null,
          warn |-> Null, at |-> 0, canvas |-> 0]
\* u_time is in seconds: milliseconds * 0.001, kept as an exact fraction.
Seconds(ms) == [num |-> ms, den |-> 1000]
NoDraw == [program |-> 0, calls |-> 0, viewport |-> 0, frameTime |-> 0, set |-> {},
           u_time |-> Seconds(0), u_resolution |-> 0]
NoRequest == [kind |-> "none", code |-> "", target |-> ""]

\* App line 253: ShaderPreview is rendered only on the preview tab.
Mounted == activeTab = "preview"
\* App line 253: isActive={activeTab === 'preview'}
isActive == activeTab = "preview"
\* App line 253: fragmentCode={outputCode}
fragmentCode == outputCode

\* ----------------------------------------------------------- utils/webgl.ts
\* gl.deleteShader / gl.deleteProgram: the handle stops being alive.
DeleteShader(al, id) == {h \in al : h.id # id}
DeleteProgram(al, id) == {h \in al : h.id # id}

\* Faulty variant: the failed shader is not deleted.
CreateShader_Mutant(al, pend, kind, compiles, log) ==
  LET shader == FreshId(UsedIds(al, pend))
      al1 == al \union {Handle(kind, shader)}
  IN [ret |-> IF compiles THEN shader ELSE 0, retLog |-> Null, allocated |-> shader,
      alive |-> al1, warn |-> IF compiles THEN Null ELSE log]

\* createShader(gl, type, source). compiles: COMPILE_STATUS of the source;
\* log: its info log. The value returned is ret (a handle id, 0 for null)
\* with retLog (a diagnostic text returned to the caller, Null for none);
\* allocated is the handle gl.createShader gave, warn what went to console.warn.
CreateShader(al, pend, kind, compiles, log) ==
  LET shader == FreshId(UsedIds(al, pend))
      al1 == al \union {Handle(kind, shader)}
  IN IF compiles
       THEN [ret |-> shader, retLog |-> Null, allocated |-> shader,
             alive |-> al1, warn |-> Null]
       ELSE [ret |-> 0, retLog |-> Null, allocated |-> shader,
             alive |-> DeleteShader(al1, shader), warn |-> log]

\* Faulty variant: the program that failed to link is not deleted.
CreateProgram_Mutant(al, pend, vertexShader, fragmentShader, links) ==
  LET program == FreshId(UsedIds(al, pend))
      al1 == al \union {Handle("program", program)}
  IN [ret |-> IF links THEN program ELSE 0, retLog |-> Null, allocated |-> program,
      alive |-> al1, warn |-> IF links THEN Null ELSE ProgramInfoLog]

\* createProgram(gl, vertexShader, fragmentShader). links: LINK_STATUS.
CreateProgram(al, pend, vertexShader, fragmentShader, links) ==
  LET program == FreshId(UsedIds(al, pend))
      al1 == al \union {Handle("program", program)}
  IN IF links
       THEN [ret |-> program, retLog |-> Null, allocated |-> program,
             alive |-> al1, warn |-> Null]
       ELSE [ret |-> 0, retLog |-> Null, allocated |-> program,
             alive |-> DeleteProgram(al1, program), warn |-> ProgramInfoLog]

\* ------------------------------------------------- webgl.ts: formatForPreview
\* Texts are sequences of characters.
VersionPragma ==
  << "#", "v", "e", "r", "s", "i", "o", "n" >>

\* The template's text before the user code.
TemplateHead ==
  << "#", "v", "e", "r", "s", "i", "o", "n", " ", "3", "0", "0", " ", "e",
     "s", "\n", "p", "r", "e", "c", "i", "s", "i", "o", "n", " ", "h", "i",
     "g", "h", "p", " ", "f", "l", "o", "a", "t", ";", "\n", "\n", "u", "n",
     "i", "f", "o", "r", "m", " ", "v", "e", "c", "2", " ", "u", "_", "r",
     "e", "s", "o", "l", "u", "t", "i", "o", "n", ";", "\n", "u", "n", "i",
     "f", "o", "r", "m", " ", "f", "l", "o", "a", "t", " ", "u", "_", "t",
     "i", "m", "e", ";", "\n", "u", "n", "i", "f", "o", "r", "m", " ", "v",
     "e", "c", "2", " ", "u", "_", "m", "o", "u", "s", "e", ";", "\n", "\n",
     "o", "u", "t", " ", "v", "e", "c", "4", " ", "f", "r", "a", "g", "C",
     "o", "l", "o", "r", ";", "\n", "\n" >>

\* The template's text after the user code.
TemplateTail ==
  << "\n", "\n", "/", "/", " ", "F", "a", "l", "l", "b", "a", "c", "k", " ",
     "m", "a", "i", "n", " ", "i", "f", " ", "u", "s", "e", "r", " ", "j",
     "u", "s", "t", " ", "w", "r", "o", "t", "e", " ", "f", "u", "n", "c",
     "t", "i", "o", "n", "s", " ", "b", "u", "t", " ", "n", "o", " ", "m",
     "a", "i", "n", "\n", "/", "/", " ", "T", "h", "i", "s", " ", "i", "s",
     " ", "a", " ", "n", "a", "i", "v", "e", " ", "h", "e", "u", "r", "i",
     "s", "t", "i", "c", "\n", "v", "o", "i", "d", " ", "m", "a", "i", "n",
     "(", ")", " ", "{", "\n", " ", " ", " ", " ", "v", "e", "c", "2", " ",
     "u", "v", " ", "=", " ", "g", "l", "_", "F", "r", "a", "g", "C", "o",
     "o", "r", "d", ".", "x", "y", " ", "/", " ", "u", "_", "r", "e", "s",
     "o", "l", "u", "t", "i", "o", "n", ".", "x", "y", ";", "\n", " ", " ",
     " ", " ", "/", "/", " ", "T", "r", "y", " ", "t", "o", " ", "c", "a",
     "l", "l", " ", "u", "s", "e", "r", " ", "m", "a", "i", "n", "I", "m",
     "a", "g", "e", " ", "i", "f", " ", "i", "t", " ", "e", "x", "i", "s",
     "t", "s", " ", "(", "S", "h", "a", "d", "e", "r", "t", "o", "y", " ",
     "s", "t", "y", "l", "e", ")", "\n", " ", " ", " ", " ", "/", "/", " ",
     "e", "l", "s", "e", " ", "d", "e", "f", "a", "u", "l", "t", " ", "m",
     "a", "i", "n", "\n", " ", " ", " ", " ", "/", "/", " ", "T", "h", "i",
     "s", " ", "p", "a", "r", "t", " ", "i", "s", " ", "t", "r", "i", "c",
     "k", "y", " ", "w", "i", "t", "h", "o", "u", "t", " ", "p", "a", "r",
     "s", "i", "n", "g", ".", " ", "\n", " ", " ", " ", " ", "/", "/", " ",
     "W", "e", " ", "e", "x", "p", "e", "c", "t", " ", "t", "h", "e", " ",
     "u", "s", "e", "r", " ", "t", "o", " ", "w", "r", "i", "t", "e", " ",
     "a", " ", "'", "v", "o", "i", "d", " ", "m", "a", "i", "n", "(", ")",
     "'", " ", "f", "o", "r", " ", "s", "t", "a", "n", "d", "a", "r", "d",
     " ", "G", "L", "S", "L", " ", "o", "u", "t", "p", "u", "t", ".", "\n",
     " ", " ", " ", " ", "/", "/", " ", "I", "f", " ", "t", "h", "e", "y",
     " ", "d", "i", "d", "n", "'", "t", ",", " ", "w", "e", " ", "c", "a",
     "n", "'", "t", " ", "r", "e", "a", "l", "l", "y", " ", "g", "u", "e",
     "s", "s", ".", "\n", " ", " ", " ", " ", "\n", " ", " ", " ", " ", "/",
     "/", " ", "H", "o", "w", "e", "v", "e", "r", ",", " ", "i", "f", " ",
     "t", "h", "e", " ", "t", "r", "a", "n", "s", "p", "i", "l", "e", "r",
     " ", "o", "u", "t", "p", "u", "t", " ", "s", "t", "a", "n", "d", "a",
     "r", "d", " ", "G", "L", "S", "L", ",", " ", "i", "t", " ", "u", "s",
     "u", "a", "l", "l", "y", " ", "i", "n", "c", "l", "u", "d", "e", "s",
     " ", "m", "a", "i", "n", "(", ")", ".", "\n", "}", "\n" >>

\* String.prototype.includes
Includes_Mutant(s, sub) ==
  Len(sub) <= Len(s) /\ SubSeq(s, 1, Len(sub)) = sub

Includes(s, sub) ==
  \E i \in 1..(Len(s) - Len(sub) + 1) : SubSeq(s, i, i + Len(sub) - 1) = sub

FormatForPreview_Mutant(userCode) ==
  IF Includes(userCode, VersionPragma)
    THEN userCode
    ELSE TemplateHead \o TemplateTail

FormatForPreview(userCode) ==
  IF Includes(userCode, VersionPragma)
    THEN userCode
    ELSE TemplateHead \o userCode \o TemplateTail

\* ------------------------------------------------ components/ShaderPreview.tsx
UnsupportedMsg == "WebGL2 not supported"
CompileFailedMsg == "Shader compilation failed. Check the logs below or code syntax."
LinkFailedMsg == "Program linking failed."

\* Faulty variant: the pending callback is not revoked.
CancelAnimationFrame_Mutant(pend, id) == pend

\* cancelAnimationFrame(id)
CancelAnimationFrame(pend, id) == {cb \in pend : cb.id # id}
\* requestAnimationFrame: a fresh callback id
NewFrameId(pend, ref) == FreshId({cb.id : cb \in pend} \union {ref})

\* Faulty variant: the cleanups of the failure paths leave the resize
\* listener registered.
RunCleanup_Mutant(c, al, pend, lis, ref) ==
  IF c.kind = "none"
    THEN [alive |-> al, pending |-> pend, listeners |-> lis]
    ELSE LET pend1 == CancelAnimationFrame(pend, ref)
         IN IF c.kind = "fail"
              THEN [alive |-> al, pending |-> pend1, listeners |-> lis]
              ELSE [alive |-> DeleteShader(DeleteShader(DeleteProgram(al, c.program), c.vs), c.fs),
                    pending |-> pend1, listeners |-> lis - 1]

\* The cleanup function returned by the previous effect run.
RunCleanup(c, al, pend, lis, ref) ==
  IF c.kind = "none"
    THEN [alive |-> al, pending |-> pend, listeners |-> lis]
    ELSE LET lis1 == lis - 1
             pend1 == CancelAnimationFrame(pend, ref)
         IN IF c.kind = "fail"
              THEN [alive |-> al, pending |-> pend1, listeners |-> lis1]
              ELSE [alive |-> DeleteShader(DeleteShader(DeleteProgram(al, c.program), c.vs), c.fs),
                    pending |-> pend1, listeners |-> lis1]

\* Faulty variant: the effect does not depend on the fragment text.
DepsChanged_Mutant(oldCode, newCode) == FALSE

\* The dependency list [fragmentCode, isActive], line 121, while isActive
\* stays true: the effect runs again when the text differs.
DepsChanged(oldCode, newCode) == oldCode # newCode

\* Whether the effect body goes past its first guard (line 16). The canvas ref
\* is set whenever the component is mounted.
EffectEnters(active) == active

\* Faulty variant: the missing context is not noticed.
ContextMissing_Mutant(avail) == FALSE

\* if (!gl), line 21
ContextMissing(avail) == ~avail

\* Layout sizes of the canvas (client size times devicePixelRatio) are
\* 1..MaxSize; a canvas that is not in the document has client size 0.
MaxSize == 2
Sizes == 1..MaxSize
\* The back-buffer size of a canvas element created without width and
\* height attributes (the 300 x 150 default), a size of its own here.
DefaultCanvasSize == MaxSize + 1
\* canvas.clientWidth * window.devicePixelRatio, and the same for the height
ClientSize(mounted, layout) == IF mounted THEN layout ELSE 0

\* Faulty variant: the viewport is left as it was.
Resize_Mutant(client, oldViewport) ==
  [canvas |-> client, viewport |-> oldViewport]

\* resize, lines 27-31: the back buffer takes the client size and the
\* viewport takes the back buffer's size.
Resize(client, oldViewport) ==
  LET width == client
  IN [canvas |-> width, viewport |-> width]

\* let startTime = performance.now(), line 96
StartTime(t) == t

\* gl.getUniformLocation is non-null for the uniforms the linked program
\* uses; the text that links uses the time and the resolution.
ActiveUniforms(src) ==
  IF src = "glslOk" THEN {"u_time", "u_resolution"} ELSE {}

\* Faulty variant: render does not request the next frame.
Reschedule_Mutant(rest, cb, id) == rest

\* requestRef.current = requestAnimationFrame(render), line 109
Reschedule(rest, cb, id) == rest \union {[cb EXCEPT !.id = id]}

\* Faulty variant: the failure paths leave the compiled flag as it was.
CompiledAfterFailure_Mutant(prev) == prev

\* setCompiled(false) on the compile-failure and link-failure paths, lines
\* 50 and 61
CompiledAfterFailure(prev) == FALSE

\* The effect body for fragment text src with driver verdict v, from the
\* state st = [error, compiled, requestRef, alive, pending, listeners,
\* canvas, viewport] left by the previous cleanup. run is the record kept
\* in lastRun.
EffectBody(src, v, avail, st) ==
  IF ContextMissing(avail)
    THEN [st EXCEPT !.error = UnsupportedMsg] @@
         [cl |-> NoCleanup,
          run |-> [NoRun EXCEPT !.verdict = "unsupported"]]
    ELSE
      LET rz == Resize(ClientSize(TRUE, clientSize), st.viewport)
          lis1 == st.listeners + 1
          r1 == CreateShader(st.alive, st.pending, "vs", TRUE, "")
          r2 == CreateShader(r1.alive, st.pending, "fs", FragCompiles(v), ShaderInfoLog(v))
          failCl == [kind |-> "fail", vs |-> 0, fs |-> 0, program |-> 0]
          run2 == [NoRun EXCEPT !.src = src, !.verdict = v, !.at = now,
                                !.canvas = rz.canvas,
                                !.vs = r1.ret,
                                !.fs = r2.ret, !.fsAllocated = r2.allocated,
                                !.fsLog = r2.retLog, !.warn = r2.warn]
      IN IF r1.ret = 0 \/ r2.ret = 0
           THEN
             LET tempFs == FreshId(UsedIds(r2.alive, st.pending))
                 al3 == IF r2.ret = 0
                          THEN r2.alive \union {Handle("tempFs", tempFs)}
                          ELSE r2.alive
                 err == IF r2.ret = 0 THEN ShaderInfoLog(v) ELSE CompileFailedMsg
             IN [error |-> err, compiled |-> CompiledAfterFailure(st.compiled),
                 requestRef |-> st.requestRef,
                 alive |-> al3, pending |-> st.pending, listeners |-> lis1,
                 canvas |-> rz.canvas, viewport |-> rz.viewport,
                 cl |-> failCl, run |-> run2]
           ELSE
             LET r3 == CreateProgram(r2.alive, st.pending, r1.ret, r2.ret, ProgramLinks(v))
                 run3 == [run2 EXCEPT !.program = r3.ret,
                                      !.programAllocated = r3.allocated,
                                      !.programLog = r3.retLog,
                                      !.warn = r3.warn]
             IN IF r3.ret = 0
                  THEN [error |-> LinkFailedMsg,
                        compiled |-> CompiledAfterFailure(st.compiled),
                        requestRef |-> st.requestRef, alive |-> r3.alive,
                        pending |-> st.pending, listeners |-> lis1,
                 canvas |-> rz.canvas, viewport |-> rz.viewport,
                        cl |-> failCl, run |-> run3]
                  ELSE
                    LET positionBuffer == FreshId(UsedIds(r3.alive, st.pending))
                        al4 == r3.alive \union {Handle("buffer", positionBuffer)}
                        vao == FreshId(UsedIds(al4, st.pending))
                        al5 == al4 \union {Handle("vao", vao)}
                        id == NewFrameId(st.pending, st.requestRef)
                    IN [error |-> Null, compiled |-> TRUE, requestRef |-> id,
                        alive |-> al5,
                        pending |-> st.pending \union
                                    {[id |-> id, program |-> r3.ret, vao |-> vao,
                                      startTime |-> StartTime(now),
                                      locs |-> ActiveUniforms(src)]},
                        listeners |-> lis1,
                 canvas |-> rz.canvas, viewport |-> rz.viewport,
                        cl |-> [kind |-> "live", vs |-> r1.ret, fs |-> r2.ret,
                                program |-> r3.ret],
                        run |-> run3]

\* React flushes the passive effect: the previous cleanup, then (if still
\* mounted) the body with the props of the last render.
FlushEffects ==
  /\ effectPending
  /\ LET c == RunCleanup(cl, alive, pending, resizeListeners, requestRef)
         st == [error |-> error, compiled |-> compiled, requestRef |-> requestRef,
                alive |-> c.alive, pending |-> c.pending, listeners |-> c.listeners,
                canvas |-> canvasSize, viewport |-> viewport]
     IN IF Mounted /\ EffectEnters(isActive)
          THEN LET n == EffectBody(fragmentCode, DriverVerdict(fragmentCode),
                                   ctxAvailable, st)
               IN   /\ error' = n.error
                    /\ compiled' = n.compiled
                    /\ requestRef' = n.requestRef
                    /\ alive' = n.alive
                    /\ pending' = n.pending
                    /\ resizeListeners' = n.listeners
                    /\ cl' = n.cl
                    /\ canvasSize' = n.canvas
                    /\ viewport' = n.viewport
                    /\ lastDraw' = NoDraw
                    /\ lastRun' = [n.run EXCEPT !.collapsed =
                                      IF ctxAvailable THEN uncompiled ELSE 0]
                    /\ uncompiled' = IF ctxAvailable THEN 0 ELSE uncompiled
          ELSE /\ alive' = c.alive
               /\ pending' = c.pending
               /\ resizeListeners' = c.listeners
               /\ cl' = NoCleanup
               /\ UNCHANGED <<error, compiled, requestRef, lastRun, uncompiled,
                              canvasVars>>
  /\ effectPending' = FALSE
  /\ UNCHANGED <<formatVars, envVars, appVars, ctxAvailable, staleUse>>

\* The timestamps the browser may pass to the callbacks of its next frame:
\* the time at which that frame began, which is not before the previous
\* frame's timestamp and not after the time the callback runs. It is not
\* the time at which the callback runs, and a callback requested while the
\* frame was already under way receives a timestamp taken before the
\* request.
FrameTimes(last, t) == last..t

\* A requested animation frame fires: render(time), lines 98-110.
Frame ==
  \E cb \in pending, time \in FrameTimes(frameStamp, now) :
    LET rest == pending \ {cb}
        id == NewFrameId(rest, requestRef)
    IN /\ frameStamp' = time
       /\ staleUse' = (staleUse \/ cb.program \notin Ids(alive) \/ cb.vao \notin Ids(alive))
       /\ lastDraw' =
            [program |-> cb.program, calls |-> 1, viewport |-> viewport,
             frameTime |-> time,
             set |-> cb.locs,
             u_time |-> IF "u_time" \in cb.locs
                          THEN Seconds(time - cb.startTime)
                          ELSE Seconds(0),
             u_resolution |-> IF "u_resolution" \in cb.locs
                                THEN canvasSize
                                ELSE 0]
       /\ requestRef' = id
       /\ pending' = Reschedule(rest, cb, id)
       /\ UNCHANGED <<formatVars, now, clientSize, appVars, error, compiled,
                      ctxAvailable, alive, cl, resizeListeners, effectPending,
                      lastRun, uncompiled, canvasSize, viewport>>

\* ------------------------------------------------ services/geminiService.ts
\* What ai.models.generateContent does for one request: rejects
\* ("transportError"), resolves with no text ("empty"), with text that is not
\* JSON ("garbage"), or with a JSON object whose code / explanation fields may
\* be missing.
ResponseCodes(req) ==
  IF req.kind = "optimize" THEN {"optimizedSrc"}
  ELSE IF req.target = GLSL THEN GlslTexts ELSE {OtherLangText}

Responses(req) ==
  {[kind |-> k, code |-> Absent, explanation |-> Absent] :
     k \in {"transportError", "empty", "garbage"}}
  \union
  {[kind |-> "json", code |-> c, explanation |-> e] :
     c \in ResponseCodes(req) \union {Absent}, e \in {"explanationText", Absent}}

\* The request was sent and failed in transport, or (translate, optimize)
\* its response text is not JSON.
RequestFailed(req, resp) ==
  /\ req.kind = "transpile" => req.code # ""
  /\ \/ resp.kind = "transportError"
     \/ resp.kind = "garbage" /\ req.kind \in {"transpile", "optimize"}

Thrown(msg) == [ok |-> FALSE, code |-> Absent, explanation |-> Absent, message |-> msg]
Returned(code, expl) == [ok |-> TRUE, code |-> code, explanation |-> expl, message |-> Absent]

\* transpileShader(code, sourceLang, targetLang)
TranspileShader(code, resp) ==
  IF code = "" THEN Returned("", "No code provided.")
  ELSE IF resp.kind # "json" THEN Thrown("Transpilation failed")
  ELSE Returned(IF resp.code = Absent THEN ParseErrorCode ELSE resp.code,
                IF resp.explanation = Absent THEN "No explanation provided."
                                             ELSE resp.explanation)

\* optimizeShader(code, lang)
OptimizeShader(code, resp) ==
  IF resp.kind \in {"transportError", "garbage"} THEN Thrown("Optimization failed")
  ELSE Returned(IF resp.code = Absent THEN code ELSE resp.code,
                IF resp.explanation = Absent THEN "Could not optimize."
                                             ELSE resp.explanation)

\* analyzeShader(code, lang): the result is the explanation text.
AnalyzeShader(code, resp) ==
  IF resp.kind = "transportError" THEN Returned(Absent, "Analysis failed")
  ELSE IF resp.kind = "empty" THEN Returned(Absent, "No analysis generated.")
  ELSE Returned(Absent, "analysisText")

\* ------------------------------------------------------------ App (part_000)
\* Faulty variant: the new entry is put at the end.
AddLog_Mutant(prev, type, message) ==
  prev \o <<[type |-> type, message |-> message]>>

\* addLog(type, message): setLogs(prev => [newLog, ...prev])
AddLog(prev, type, message) == <<[type |-> type, message |-> message]>> \o prev

\* A handler starts: setIsProcessing(true), addLog('info', ...), the request
\* is sent with the state the handler's render saw.
StartRequest(kind, message) ==
  /\ ~effectPending
  /\ Len(logs) < MaxLogs
  /\ isProcessing' = TRUE
  /\ logs' = AddLog(logs, "info", message)
  /\ inflight' = [kind |-> kind, code |-> inputCode, target |-> outputLang]
  /\ lastFailed' = FALSE
  /\ UNCHANGED <<formatVars, envVars, canvasVars,
                 activeTab, outputLang, inputCode, outputCode, explanation, previewVars>>

\* Faulty variant: the buttons are never disabled.
ButtonDisabled_Mutant(processing) == FALSE

\* disabled={isProcessing} on the optimize, analyze and transpile buttons:
\* a disabled button dispatches no click.
ButtonDisabled(processing) == processing

\* onClick={handleTranspile} (the button is disabled while isProcessing), up
\* to the await
ClickTranspile ==
  /\ ~ButtonDisabled(isProcessing)
  /\ StartRequest("transpile", "Compiling...")

\* onClick={handleOptimize} (disabled while isProcessing), up to the await
ClickOptimize ==
  /\ ~ButtonDisabled(isProcessing)
  /\ inputCode # ""
  /\ StartRequest("optimize", "Optimizing source code...")

\* onClick={handleAnalyze} (disabled while isProcessing), up to the await
ClickAnalyze ==
  /\ ~ButtonDisabled(isProcessing)
  /\ inputCode # ""
  /\ StartRequest("analyze", "Analyzing shader...")

\* handleTranspile after the await: try / catch / finally
SettleTranspile ==
  /\ inflight.kind = "transpile"
  /\ ~effectPending
  /\ \E resp \in Responses(inflight) :
       LET result == TranspileShader(inflight.code, resp)
       IN /\ lastFailed' = RequestFailed(inflight, resp)
          /\ IF result.ok
            THEN /\ outputCode' = result.code
                 /\ explanation' = result.explanation
                 /\ logs' = AddLog(logs, "success", "Compilation successful.")
                 /\ effectPending' = (Mounted /\ DepsChanged(outputCode, result.code))
                 /\ uncompiled' = IF result.code # outputCode
                                    THEN uncompiled + 1
                                    ELSE uncompiled
            ELSE /\ logs' = AddLog(logs, "error", result.message)
                 /\ UNCHANGED <<outputCode, explanation, effectPending, uncompiled>>
  /\ isProcessing' = FALSE
  /\ inflight' = NoRequest
  /\ UNCHANGED <<formatVars, envVars, canvasVars, activeTab, outputLang, inputCode, error, compiled,
                 requestRef, ctxAvailable, alive, cl, pending, resizeListeners,
                 lastRun, staleUse>>

\* handleOptimize after the await
SettleOptimize ==
  /\ inflight.kind = "optimize"
  /\ ~effectPending
  /\ \E resp \in Responses(inflight) :
       LET result == OptimizeShader(inflight.code, resp)
       IN /\ lastFailed' = RequestFailed(inflight, resp)
          /\ IF result.ok
            THEN /\ inputCode' = result.code
                 /\ logs' = AddLog(AddLog(logs, "success", "Optimization complete."),
                                   "info", "Notes")
            ELSE /\ logs' = AddLog(logs, "error", result.message)
                 /\ UNCHANGED inputCode
  /\ isProcessing' = FALSE
  /\ inflight' = NoRequest
  /\ UNCHANGED <<formatVars, envVars, canvasVars,
                 activeTab, outputLang, outputCode, explanation, previewVars>>

\* handleAnalyze after the await
SettleAnalyze ==
  /\ inflight.kind = "analyze"
  /\ ~effectPending
  /\ \E resp \in Responses(inflight) :
       LET result == AnalyzeShader(inflight.code, resp)
       IN /\ lastFailed' = RequestFailed(inflight, resp)
          /\ IF result.ok
            THEN /\ explanation' = result.explanation
                 /\ logs' = AddLog(logs, "success", "Analysis complete.")
            ELSE /\ logs' = AddLog(logs, "error", result.message)
                 /\ UNCHANGED explanation
  /\ isProcessing' = FALSE
  /\ inflight' = NoRequest
  /\ UNCHANGED <<formatVars, envVars, canvasVars,
                 activeTab, outputLang, inputCode, outputCode, previewVars>>

\* The source editor's onChange={setInputCode}
EditInput ==
  /\ ~effectPending
  /\ \E c \in InputTexts : c # inputCode /\ inputCode' = c
  /\ UNCHANGED <<formatVars, envVars, canvasVars,
                 activeTab, outputLang, outputCode, explanation, logs, isProcessing,
                 inflight, lastFailed, previewVars>>

\* The output language select's onChange
SelectOutputLang ==
  /\ ~effectPending
  /\ \E l \in Languages : l # outputLang /\ outputLang' = l
  /\ UNCHANGED <<formatVars, envVars, canvasVars,
                 activeTab, inputCode, outputCode, explanation, logs, isProcessing,
                 inflight, lastFailed, previewVars>>

\* onClick={() => setActiveTab('preview')}: the button exists only while the
\* output language is GLSL. ShaderPreview mounts with fresh state, a new
\* canvas and a new context.
OpenPreview ==
  /\ ~effectPending
  /\ activeTab = "code"
  /\ outputLang = GLSL
  /\ activeTab' = "preview"
  /\ error' = Null
  /\ compiled' = FALSE
  /\ requestRef' = 0
  /\ alive' = {}
  /\ cl' = NoCleanup
  /\ ctxAvailable' \in BOOLEAN
  /\ lastRun' = NoRun
  /\ canvasSize' = DefaultCanvasSize
  /\ viewport' = DefaultCanvasSize
  /\ lastDraw' = NoDraw
  /\ effectPending' = TRUE
  /\ UNCHANGED <<formatVars, envVars,
                 outputLang, inputCode, outputCode, explanation, logs, isProcessing,
                 inflight, lastFailed, pending, resizeListeners, staleUse, uncompiled>>

\* Faulty variant: the preview stays mounted, only hidden, when the code tab
\* is opened, and keeps its state.
OpenCode_Mutant ==
  /\ ~effectPending
  /\ activeTab = "preview"
  /\ activeTab' = "code"
  /\ effectPending' = TRUE
  /\ UNCHANGED <<formatVars, envVars, canvasVars, outputLang, inputCode, outputCode,
                 explanation, logs, isProcessing, inflight, lastFailed,
                 error, compiled, requestRef, ctxAvailable, alive, cl, pending,
                 resizeListeners, lastRun, staleUse, uncompiled>>

\* onClick={() => setActiveTab('code')}: ShaderPreview unmounts; its cleanup
\* runs with the next flush.
OpenCode ==
  /\ ~effectPending
  /\ activeTab = "preview"
  /\ activeTab' = "code"
  /\ error' = Null
  /\ compiled' = FALSE
  /\ effectPending' = TRUE
  /\ UNCHANGED <<formatVars, envVars, canvasVars,
                 outputLang, inputCode, outputCode, explanation, logs, isProcessing,
                 inflight, lastFailed, requestRef, ctxAvailable, alive, cl, pending,
                 resizeListeners, lastRun, staleUse, uncompiled>>

\* The state after App's first render; the preview is not mounted.
InitProgram ==
  /\ activeTab = "code"
  /\ outputLang = GLSL
  /\ inputCode = INITIAL_HLSL
  /\ outputCode = ""
  /\ explanation = ""
  /\ logs = <<>>
  /\ isProcessing = FALSE
  /\ inflight = NoRequest
  /\ lastFailed = FALSE
  /\ error = Null
  /\ compiled = FALSE
  /\ requestRef = 0
  /\ ctxAvailable = TRUE
  /\ alive = {}
  /\ cl = NoCleanup
  /\ pending = {}
  /\ resizeListeners = 0
  /\ effectPending = FALSE
  /\ lastRun = NoRun
  /\ staleUse = FALSE
  /\ uncompiled = 0
  /\ canvasSize = DefaultCanvasSize
  /\ viewport = DefaultCanvasSize
  /\ lastDraw = NoDraw
  /\ now = 0
  /\ clientSize = 1
  /\ frameStamp = 0

Init ==
  /\ InitProgram
  /\ fmtInput = << >>
  /\ fmtOutput = << >>
  /\ fmtDone = FALSE

Next ==
  \/ ClickTranspile
  \/ ClickOptimize
  \/ ClickAnalyze
  \/ SettleTranspile
  \/ SettleOptimize
  \/ SettleAnalyze
  \/ EditInput
  \/ SelectOutputLang
  \/ OpenPreview
  \/ OpenCode
  \/ FlushEffects
  \/ Frame

Spec == Init /\ [][Next]_vars

\* ------------------------------------------- the preview under clock and resize
\* The clock and the window's layout change on their own. They are followed
\* here together with the handlers that drive the preview (translate, the
\* tabs, the effect, the frames); the editor, the language selects and the
\* optimize and analyze handlers do not touch what the preview reads.
MaxTime == 2

\* performance.now() advances by a millisecond.
Tick ==
  /\ now < MaxTime
  /\ now' = now + 1
  /\ UNCHANGED <<appVars, previewVars, canvasVars, formatVars, clientSize,
                 frameStamp>>

\* The window is resized: the layout size changes and every registered
\* resize listener (line 33) runs resize on its canvas.
WindowResize ==
  \E s \in Sizes \ {clientSize} :
    /\ clientSize' = s
    /\ IF resizeListeners > 0
         THEN LET rz == Resize(ClientSize(Mounted, s), viewport)
              IN /\ canvasSize' = rz.canvas
                 /\ viewport' = rz.viewport
         ELSE UNCHANGED <<canvasSize, viewport>>
    /\ UNCHANGED <<appVars, previewVars, lastDraw, formatVars, now, frameStamp>>

NextTimed ==
  \/ ClickTranspile
  \/ SettleTranspile
  \/ OpenPreview
  \/ OpenCode
  \/ FlushEffects
  \/ Frame
  \/ Tick
  \/ WindowResize

SpecTimed == Init /\ [][NextTimed]_vars

\* ----------------------------------------- formatForPreview on bounded texts
\* Input texts are concatenations of at most MaxSegs fragments, so that the
\* pragma occurs at the start, in the middle, split over fragments, or
\* only in part.
MaxSegs == 3

Segments ==
  { << "#", "v", "e", "r", "s" >>, << "i", "o", "n" >>, << "#" >>,
    << "x" >>, << "\n" >> }

RECURSIVE Concat(_)
Concat(ss) ==
  IF ss = << >> THEN << >> ELSE Head(ss) \o Concat(Tail(ss))

FormatInputs ==
  { Concat(ss) : ss \in UNION { [1..n -> Segments] : n \in 0..MaxSegs } }

InitFormat ==
  /\ InitProgram
  /\ fmtInput \in FormatInputs
  /\ fmtOutput = << >>
  /\ fmtDone = FALSE

\* One call of formatForPreview.
ApplyFormat ==
  /\ ~fmtDone
  /\ fmtOutput' = FormatForPreview(fmtInput)
  /\ fmtDone' = TRUE
  /\ UNCHANGED <<fmtInput, appVars, previewVars, canvasVars, envVars>>

NextFormat ==
  \/ ApplyFormat

SpecFormat == InitFormat /\ [][NextFormat]_vars

\* ------------------------------------------------------------------ claims
AliveOf(kind) == {h \in alive : h.kind = kind}
\* The passive effect of the last commit has run.
Settled == ~effectPending
CompileFailed == lastRun.verdict \in {"fail", "failquiet"}
LinkFailed == lastRun.verdict = "nolink"

\* C1 (as claimed): at most one compiled vertex shader, one compiled fragment
\* shader and one linked program are alive in the context at any time.
C1_AtMostOnePairAndProgram ==
  /\ Cardinality(AliveOf("vs")) <= 1
  /\ Cardinality(AliveOf("fs")) <= 1
  /\ Cardinality(AliveOf("program")) <= 1

\* C2 (as claimed): once a preview whose last run went Live has been
\* deactivated and its cleanup has run, no driver handle of the instance is
\* alive and no frame callback is pending.
C2_DeactivationReleasesAll ==
  (~Mounted /\ Settled /\ lastRun.verdict = "ok") => (alive = {} /\ pending = {})

\* C3 (as claimed): after a compile or link failure no shader or program
\* allocated by the attempt is alive, and no frame callback is pending.
C3_FailureReleasesAttempt ==
  (Mounted /\ Settled /\ (CompileFailed \/ LinkFailed)) =>
    /\ AliveOf("vs") = {} /\ AliveOf("fs") = {} /\ AliveOf("tempFs") = {}
    /\ AliveOf("program") = {}
    /\ pending = {}

\* C4 (as claimed): after a fragment compile failure the preview shows a
\* non-empty diagnostic, is not Live, and no linked program exists.
C4_CompileFailureHasLog ==
  (Mounted /\ Settled /\ CompileFailed) =>
    /\ error # Null /\ error # ""
    /\ ~compiled
    /\ AliveOf("program") = {}

\* C5: no frame callback ever runs against a released program or vertex
\* array: none has, and every pending callback's program and vertex array
\* are alive.
C5_NoStaleFrame ==
  /\ ~staleUse
  /\ \A cb \in pending : cb.program \in Ids(AliveOf("program")) /\ cb.vao \in Ids(AliveOf("vao"))

\* C5 witness: a program that ran at least one frame has been released and
\* its frame loop cancelled.
C5_Witness ==
  /\ requestRef = 2
  /\ pending = {}
  /\ AliveOf("program") = {}
  /\ AliveOf("vao") # {}
  /\ ~staleUse

\* C6: whenever a compile has been entered, the one text it compiled is the
\* latest source text; every earlier update since the previous compile was
\* dropped without being compiled.
C6_OnlyLatestCompiled ==
  (Mounted /\ Settled /\ ctxAvailable) =>
    (lastRun.src = outputCode /\ uncompiled = 0)

\* C6 witness: two or more updates arrived before the compile was entered,
\* and that compile took the last one.
C6_Witness ==
  /\ Mounted /\ Settled /\ ctxAvailable
  /\ lastRun.collapsed >= 2
  /\ lastRun.src = outputCode

C9_UnsupportedDoesNothing ==
  (Mounted /\ Settled /\ ~ctxAvailable) =>
    /\ error = UnsupportedMsg
    /\ ~compiled
    /\ lastRun.src = Null /\ lastRun.verdict = "unsupported"
    /\ alive = {}
    /\ pending = {}
    /\ resizeListeners = 0

\* C9 witness: an activation without a context, with source text present,
\* after its effect has run.
C9_Witness ==
  /\ Mounted /\ Settled /\ ~ctxAvailable
  /\ outputCode = "glslOk"
  /\ error = UnsupportedMsg

\* C10 (as claimed): a request that fails leaves the displayed output code
\* and explanation and the preview's program as they were.
C10_FailureLeavesDisplayUnchanged ==
  [][(inflight.kind # "none" /\ inflight'.kind = "none" /\ lastFailed') =>
       (/\ outputCode' = outputCode
        /\ explanation' = explanation
        /\ alive' = alive /\ cl' = cl /\ effectPending' = effectPending)]_vars

\* C11 (as claimed): the preview never compiles a text produced for a target
\* language other than GLSL.
C11_OnlyGlslTextCompiled ==
  lastRun.src # OtherLangText

\* The text holds the characters of the version pragma at consecutive
\* positions.
HasVersionPragma(s) ==
  \E i \in 1..Len(s) :
    \A k \in 1..Len(VersionPragma) :
      i + k - 1 <= Len(s) /\ s[i + k - 1] = VersionPragma[k]

IsSuffix(t, s) ==
  Len(t) <= Len(s) /\ SubSeq(s, Len(s) - Len(t) + 1, Len(s)) = t

DeclResolution ==
  << "u", "n", "i", "f", "o", "r", "m", " ", "v", "e", "c", "2", " ", "u",
     "_", "r", "e", "s", "o", "l", "u", "t", "i", "o", "n", ";" >>

DeclTime ==
  << "u", "n", "i", "f", "o", "r", "m", " ", "f", "l", "o", "a", "t", " ",
     "u", "_", "t", "i", "m", "e", ";" >>

DeclMouse ==
  << "u", "n", "i", "f", "o", "r", "m", " ", "v", "e", "c", "2", " ", "u",
     "_", "m", "o", "u", "s", "e", ";" >>

DeclFragColor ==
  << "o", "u", "t", " ", "v", "e", "c", "4", " ", "f", "r", "a", "g", "C",
     "o", "l", "o", "r", ";" >>

MainHeader ==
  << "v", "o", "i", "d", " ", "m", "a", "i", "n", "(", ")", " ", "{" >>

Declares(s) ==
  /\ Includes(s, DeclResolution)
  /\ Includes(s, DeclTime)
  /\ Includes(s, DeclMouse)
  /\ Includes(s, DeclFragColor)

\* C12: for every input text containing the version pragma, formatForPreview
\* returns the input unchanged, character for character.
C12_PragmaTextUnchanged ==
  (fmtDone /\ HasVersionPragma(fmtInput)) => fmtOutput = fmtInput

\* C12 witness: a text with the pragma in its middle was formatted and came
\* back unchanged.
C12_Witness ==
  /\ fmtDone
  /\ HasVersionPragma(fmtInput)
  /\ fmtInput[1] = "x"
  /\ fmtOutput = fmtInput

TextChars(t) ==
  IF t = "" THEN << >>
  ELSE IF t \in GlslTexts THEN VersionPragma \o << t >>
  ELSE << t >>

\* C14 (as claimed): every text the preview compiles has passed through
\* formatForPreview: it is a text formatForPreview returns, which
\* formatForPreview maps to itself.
C14_CompiledTextIsFormatted ==
  (lastRun.src # Null) =>
    FormatForPreview(TextChars(lastRun.src)) = TextChars(lastRun.src)

\* C15: deactivation from any state returns the preview to Idle. While the
\* preview is not active it shows neither the Live badge nor an error; once
\* its cleanup has run no frame callback, resize listener or cleanup of it
\* is left; and the next activation starts from the initial state.
C15_DeactivationReturnsToIdle ==
  /\ [](~isActive => (error = Null /\ ~compiled))
  /\ []((~isActive /\ Settled) =>
          (pending = {} /\ resizeListeners = 0 /\ cl = NoCleanup))
  /\ [][(~isActive /\ isActive') =>
          /\ error' = Null /\ ~compiled' /\ requestRef' = 0
          /\ cl' = NoCleanup /\ pending' = {} /\ resizeListeners' = 0
          /\ alive' = {}]_vars

\* C15 witness: a preview whose compile failed has been deactivated and its
\* cleanup has run.
C15_Witness ==
  /\ ~isActive /\ Settled
  /\ lastRun.verdict = "fail"
  /\ error = Null /\ ~compiled

\* C16 (as claimed): a compile is entered only with a drawable context and a
\* non-empty source text; an active preview whose source text is empty has
\* attempted no compile and shows no error.
C16_EmptySourceStaysIdle ==
  /\ (isActive /\ lastRun.src # Null) => (ctxAvailable /\ lastRun.src # "")
  /\ (isActive /\ Settled /\ ctxAvailable /\ fragmentCode = "") =>
       (lastRun.src = Null /\ error = Null /\ ~compiled)

\* The controller is Live from the effect run that linked a program until
\* that run's cleanup.
Live == cl.kind = "live"

\* C17: at most one frame callback is pending; one is pending exactly while
\* the preview is Live (and, once the effect has run, exactly while the Live
\* badge shows); every render call issued one draw call, and while Live it
\* left one next frame requested.
C17_OneFramePending ==
  /\ Cardinality(pending) <= 1
  /\ Live <=> (Cardinality(pending) = 1)
  /\ (isActive /\ Settled) => (compiled <=> pending # {})
  /\ (lastDraw # NoDraw) => lastDraw.calls = 1

\* C17 witness: a frame has run and the next one is requested.
C17_Witness ==
  /\ Live
  /\ lastDraw.calls = 1
  /\ \E cb \in pending : cb.id = requestRef /\ cb.program = lastDraw.program

\* C18: a resize notification changes neither the displayed state nor any
\* handle, cleanup or pending callback; with a listener registered it sets
\* the back buffer to the client size and the viewport to the back buffer;
\* and every frame passes the back buffer's current size as the resolution
\* uniform and draws into a viewport of that size.
C18_ResizeOnlyResizes ==
  /\ [][(clientSize' # clientSize) =>
          /\ error' = error /\ compiled' = compiled /\ requestRef' = requestRef
          /\ alive' = alive /\ cl' = cl /\ pending' = pending
          /\ resizeListeners' = resizeListeners
          /\ (resizeListeners > 0) =>
               /\ canvasSize' = ClientSize(Mounted, clientSize')
               /\ viewport' = canvasSize']_vars
  /\ [][(frameStamp' # frameStamp \/ lastDraw' # lastDraw) =>
          \/ lastDraw' = NoDraw
          \/ /\ lastDraw'.viewport = canvasSize
             /\ ("u_resolution" \in lastDraw'.set) =>
                  lastDraw'.u_resolution = canvasSize]_vars

\* C18 witness: the window was resized while the preview was Live, and the
\* frame after it used the new size.
C18_Witness ==
  /\ Live
  /\ lastRun.canvas = 1
  /\ canvasSize = 2
  /\ lastDraw.u_resolution = 2 /\ lastDraw.viewport = 2

\* C19 (as claimed): the time uniform of every frame is the frame's time
\* minus the time at which the current program became Live, in seconds, and
\* is never negative.
C19_ElapsedNeverNegative ==
  (lastDraw # NoDraw /\ "u_time" \in lastDraw.set) =>
    /\ lastDraw.u_time = Seconds(lastDraw.frameTime - lastRun.at)
    /\ lastDraw.u_time.num >= 0

\* C20: the log list only grows at its head: every step that changes it
\* puts one or two new entries in front and leaves the entries it had, in
\* their order and unmodified, behind them.
C20_LogsGrowAtHead ==
  [][(logs' # logs) =>
       \E k \in 1..2 :
         /\ Len(logs') = Len(logs) + k
         /\ SubSeq(logs', k + 1, Len(logs')) = logs]_vars

\* C20 witness: entries of a failed and of a completed request lie over the
\* entry that announced the first request.
C20_Witness ==
  /\ Len(logs) >= 3
  /\ logs[Len(logs)].type = "info"
  /\ logs[1].type # logs[2].type
  /\ \E i \in 1..Len(logs) : logs[i].type = "error"

\* C21: at most one remote request is in flight. isProcessing is true
\* exactly while a request is awaited; a handler starts a request only when
\* none is awaited and isProcessing is false; and when the request settles,
\* by success or by failure, isProcessing is false again.
C21_OneRequestInFlight ==
  /\ [](isProcessing <=> inflight # NoRequest)
  /\ [][(inflight' # inflight /\ inflight' # NoRequest) =>
          (~isProcessing /\ inflight = NoRequest /\ isProcessing')]_vars
  /\ [][(inflight # NoRequest /\ inflight' # inflight) =>
          (inflight' = NoRequest /\ ~isProcessing')]_vars

\* C21 witness: a second request is awaited after the first one failed.
C21_Witness ==
  /\ isProcessing
  /\ inflight.kind = "analyze"
  /\ Len(logs) >= 3
  /\ logs[2].type = "error"

\* C22: at most one resize listener of the preview is registered on the
\* window at any time, and once the cleanup of a deactivated preview has run
\* none is registered.
C22_AtMostOneResizeListener ==
  /\ resizeListeners \in {0, 1}
  /\ (~isActive /\ Settled) => resizeListeners = 0

\* C22 witness: in one activation a compile failed, then a new text went
\* Live; one listener is registered.
C22_Witness ==
  /\ isActive /\ Settled /\ Live
  /\ AliveOf("tempFs") # {}
  /\ resizeListeners = 1

\* C23: the Live badge and an error exclude each other: whenever compiled
\* is true, error is null.
C23_LiveExcludesError ==
  compiled => error = Null

\* C23 witness: in one activation a text failed to compile and showed its
\* error, then a new text went Live and the error is gone.
C23_Witness ==
  /\ compiled /\ error = Null
  /\ lastRun.verdict = "ok"
  /\ AliveOf("tempFs") # {}

====
